---- MODULE Spec2Model ----
(***************************************************************************)
(* Cookie-based JWT relay of embla.users.api: the three token views that   *)
(* move tokens between the response body and httpOnly cookies, the cookie  *)
(* authenticator, and logout.  The Token Issuer (rest_framework_simplejwt) *)
(* is the environment: its views, token validation and user lookup are     *)
(* modelled by what they answer for a token, the clock and the user table. *)
(***************************************************************************)
EXTENDS Integers, FiniteSets, Sequences, TLC

\* ---------------------------------------------------------------- bounds
MaxTime == 1
MaxTokens == 4
\* Token lifetimes in clock ticks (issuer settings; access shorter than refresh).
AccessLife == 1
RefreshLife == 2

Users == {1, 2}

\* ---------------------------------------------------------------- values
\* Python None, as returned by dict.get for a missing key.
None == [none |-> TRUE]
\* A plain string.
Str(s) == [text |-> s]
\* A signed token string, represented by the claims it decodes to.
Token(typ, sub, exp) == [typ |-> typ, sub |-> sub, exp |-> exp]
\* A string that is no JWT at all.
Garbage == Str("not.a.jwt")
IsToken(v) == DOMAIN v = {"typ", "sub", "exp"}
\* Python truthiness of an optional string: None and "" are falsy.
Truthy(v) == v # None /\ v # Str("")

\* ---------------------------------------------------------------- dicts
EmptyDict == [k \in {} |-> None]
Get(d, k) == IF k \in DOMAIN d THEN d[k] ELSE None
Put(d, k, v) == [x \in DOMAIN d \cup {k} |-> IF x = k THEN v ELSE d[x]]
Pop(d, k) == [x \in DOMAIN d \ {k} |-> d[x]]
\* A dict holding key k unless the value is None (a key that was never sent).
Opt(k, v) == IF v = None THEN EmptyDict ELSE Put(EmptyDict, k, v)
Merge(d, e) == [x \in DOMAIN d \cup DOMAIN e |-> IF x \in DOMAIN e THEN e[x] ELSE d[x]]

VARIABLES
  now,         \* the server clock
  users,       \* the user table: id -> "active" | "inactive" | "absent"
  issued,      \* the tokens signed with the server key so far
  DEBUG,       \* settings.DEBUG
  ROTATE,      \* the issuer's ROTATE_REFRESH_TOKENS setting
  op,          \* the operation being answered, "idle" between requests
  request,     \* its request, as received
  delegated,   \* the request as passed on to the Token Issuer
  upstream,    \* the Token Issuer's response to the delegated call
  response,    \* the response returned to the client
  result       \* authenticate's outcome

vars == <<now, users, issued, DEBUG, ROTATE, op, request, delegated, upstream, response, result>>
server == <<now, users, issued>>

\* ---------------------------------------------------------------- shapes
HTTP_OK == 200
Response(status, data) == [status_code |-> status, data |-> data, cookies |-> EmptyDict]
NoResponse == [status_code |-> 0, data |-> EmptyDict, cookies |-> EmptyDict]
Request(cookies, data, header) == [COOKIES |-> cookies, data |-> data, header |-> header]
NoRequest == Request(EmptyDict, EmptyDict, None)
Anonymous == [outcome |-> "anonymous", user |-> 0, token |-> None, exc |-> ""]
Identity(u, t) == [outcome |-> "identity", user |-> u, token |-> t, exc |-> ""]
Raise(e) == [outcome |-> "raise", user |-> 0, token |-> None, exc |-> e]
NoResult == [outcome |-> "", user |-> 0, token |-> None, exc |-> ""]

\* ------------------------------------------------------ the Token Issuer
\* A failure of an issuer view is modelled as the non-OK response the client
\* gets for it.  (The library raises it and the framework's exception handler
\* renders that same response; the relay's status test is what decides for a
\* response that is returned.)
\*
\* Signature and expiry check of a raw token string: a signature verifies
\* exactly for the tokens the issuer signed.
Verifies(raw) == IsToken(raw) /\ raw \in issued /\ raw.exp > now

\* JWTAuthentication.get_validated_token: an access token that verifies, or
\* InvalidToken.
get_validated_token(raw) ==
  IF Verifies(raw) /\ raw.typ = "access" THEN Identity(0, raw) ELSE Raise("InvalidToken")

\* JWTAuthentication.get_user: the user named by the token's subject, or
\* AuthenticationFailed when that user is gone or inactive.
get_user(validated_token) ==
  IF users[validated_token.sub] = "active"
  THEN Identity(validated_token.sub, validated_token)
  ELSE Raise("AuthenticationFailed")

\* JWTAuthentication.authenticate: the header-based resolution.
JWTAuthentication_authenticate(req) ==
  IF req.header = None THEN Anonymous
  ELSE LET v == get_validated_token(req.header)
       IN IF v.outcome = "raise" THEN v ELSE get_user(v.token)

InvalidTokenBody ==
  Put(Put(EmptyDict, "detail", Str("Token is invalid or expired")), "code", Str("token_not_valid"))
RequiredBody(k) == Put(EmptyDict, k, Str("This field is required."))

\* TokenObtainPairView.post: a token pair for the credentials of an active user.
TokenObtainPairView_post(req) ==
  IF ~({"username", "password"} \subseteq DOMAIN req.data)
  THEN Response(400, RequiredBody("username"))
  ELSE LET u == req.data["username"].user
       IN IF users[u] = "active" /\ req.data["password"].pw = u
          THEN Response(HTTP_OK,
                 Put(Put(EmptyDict, "refresh", Token("refresh", u, now + RefreshLife)),
                     "access", Token("access", u, now + AccessLife)))
          ELSE Response(401, Put(EmptyDict, "detail",
                 Str("No active account found with the given credentials")))

\* TokenRefreshView.post: a new access token for a refresh token that verifies,
\* with a new refresh token next to it when refresh tokens rotate.
TokenRefreshView_post(req) ==
  IF "refresh" \notin DOMAIN req.data THEN Response(400, RequiredBody("refresh"))
  ELSE LET raw == req.data["refresh"]
       IN IF Verifies(raw) /\ raw.typ = "refresh"
          THEN Response(HTTP_OK,
                 Merge(Put(EmptyDict, "access", Token("access", raw.sub, now + AccessLife)),
                       IF ROTATE
                       THEN Put(EmptyDict, "refresh", Token("refresh", raw.sub, now + RefreshLife))
                       ELSE EmptyDict))
          ELSE Response(401, InvalidTokenBody)

\* TokenVerifyView.post: an empty OK body for a token of any type that verifies.
TokenVerifyView_post(req) ==
  IF "token" \notin DOMAIN req.data THEN Response(400, RequiredBody("token"))
  ELSE IF Verifies(req.data["token"]) THEN Response(HTTP_OK, EmptyDict)
  ELSE Response(401, InvalidTokenBody)

\* The tokens a response of the issuer carries: they are signed by then.
Minted(resp) == {resp.data[k] : k \in {x \in DOMAIN resp.data : IsToken(resp.data[x])}}

\* ---------------------------------------------------------- cookie relay
\* timedelta(days=, minutes=).total_seconds()
timedelta_total_seconds(days, minutes) == days * 86400 + minutes * 60

\* set_cookie without the httponly flag.
set_cookie_readable(resp, key, value, max_age) ==
  [resp EXCEPT !.cookies = Put(@, key,
     [value |-> value, httponly |-> FALSE, secure |-> ~DEBUG,
      samesite |-> "Strict", max_age |-> max_age])]

\* response.set_cookie(key, value, httponly=True, secure=not settings.DEBUG,
\*                     samesite="Strict", max_age)
set_cookie(resp, key, value, max_age) ==
  [resp EXCEPT !.cookies = Put(@, key,
     [value |-> value, httponly |-> TRUE, secure |-> ~DEBUG,
      samesite |-> "Strict", max_age |-> max_age])]

\* response.delete_cookie(key): an expired cookie with an empty value.
delete_cookie(resp, key) ==
  [resp EXCEPT !.cookies = Put(@, key,
     [value |-> Str(""), httponly |-> FALSE, secure |-> FALSE,
      samesite |-> "", max_age |-> 0])]

\* A status test that takes every response for a success.
IsOK_always(resp) == TRUE

\* response.status_code == HTTPStatus.OK
IsOK(resp) == resp.status_code = HTTP_OK

\* An injection that keeps a value the body already has.
InjectCookie_body_first(req, cookie, key) ==
  LET v == Get(req.COOKIES, cookie)
  IN IF Truthy(v) /\ key \notin DOMAIN req.data
     THEN [req EXCEPT !.data = Put(@, key, v)] ELSE req

\* An injection that never happens.
InjectCookie_never(req, cookie, key) == req

\* v = request.COOKIES.get(cookie); if v: request.data[key] = v
InjectCookie(req, cookie, key) ==
  LET v == Get(req.COOKIES, cookie)
  IN IF Truthy(v) THEN [req EXCEPT !.data = Put(@, key, v)] ELSE req

\* What a handler did: the request it passed on, the issuer's response to it,
\* and the response it returned.
Handled(req, up, resp) == [delegated |-> req, upstream |-> up, response |-> resp]

\* CookieTokenObtainPairView.post
CookieTokenObtainPairView_post(req) ==
  LET resp == TokenObtainPairView_post(req)
      access_token == Get(resp.data, "access")
      refresh_token == Get(resp.data, "refresh")
      r1 == IF Truthy(access_token)
            THEN set_cookie(resp, "access_token", access_token,
                            timedelta_total_seconds(0, 60))
            ELSE resp
      r2 == IF Truthy(refresh_token)
            THEN set_cookie(r1, "refresh_token", refresh_token,
                            timedelta_total_seconds(1, 0))
            ELSE r1
  IN Handled(req, resp,
       IF IsOK(resp)
       THEN [r2 EXCEPT !.data = Put(Pop(Pop(@, "access"), "refresh"),
                                    "detail", Str("Login successful"))]
       ELSE resp)

\* CookieTokenRefreshView.post
CookieTokenRefreshView_post(req) ==
  LET req2 == InjectCookie(req, "refresh_token", "refresh")
      resp == TokenRefreshView_post(req2)
      access_token == Get(resp.data, "access")
      r1 == IF Truthy(access_token)
            THEN set_cookie(resp, "access_token", access_token,
                            timedelta_total_seconds(0, 60))
            ELSE resp
  IN Handled(req2, resp,
       IF IsOK(resp)
       THEN [r1 EXCEPT !.data = Put(Pop(@, "access"), "detail", Str("Token refreshed"))]
       ELSE resp)

\* CookieTokenVerifyView.post
CookieTokenVerifyView_post(req) ==
  LET req2 == InjectCookie(req, "access_token", "token")
      resp == TokenVerifyView_post(req2)
  IN Handled(req2, resp, resp)

\* authenticate with "is None" for "not": an empty cookie is validated too.
authenticate_is_none(req) ==
  LET access_token == Get(req.COOKIES, "access_token")
  IN IF access_token = None THEN JWTAuthentication_authenticate(req)
     ELSE LET v == get_validated_token(access_token)
          IN IF v.outcome = "raise" THEN Anonymous
             ELSE LET u == get_user(v.token)
                  IN IF u.outcome = "raise"
                     THEN (IF u.exc = "InvalidToken" THEN Anonymous ELSE u)
                     ELSE Identity(u.user, v.token)

\* authenticate that turns to the header when the cookie's token is invalid.
authenticate_header_retry(req) ==
  LET access_token == Get(req.COOKIES, "access_token")
  IN IF ~Truthy(access_token) THEN JWTAuthentication_authenticate(req)
     ELSE LET v == get_validated_token(access_token)
          IN IF v.outcome = "raise" THEN JWTAuthentication_authenticate(req)
             ELSE LET u == get_user(v.token)
                  IN IF u.outcome = "raise"
                     THEN (IF u.exc = "InvalidToken" THEN Anonymous ELSE u)
                     ELSE Identity(u.user, v.token)

\* authenticate with "except AuthenticationFailed" for "except InvalidToken".
authenticate_catch_all(req) ==
  LET access_token == Get(req.COOKIES, "access_token")
  IN IF ~Truthy(access_token) THEN JWTAuthentication_authenticate(req)
     ELSE LET v == get_validated_token(access_token)
          IN IF v.outcome = "raise" THEN Anonymous
             ELSE LET u == get_user(v.token)
                  IN IF u.outcome = "raise" THEN Anonymous
                     ELSE Identity(u.user, v.token)

\* CookieJWTAuthentication.authenticate
authenticate(req) ==
  LET access_token == Get(req.COOKIES, "access_token")
  IN IF ~Truthy(access_token) THEN JWTAuthentication_authenticate(req)
     ELSE LET v == get_validated_token(access_token)
          IN IF v.outcome = "raise" THEN Anonymous
             ELSE LET u == get_user(v.token)
                  IN IF u.outcome = "raise"
                     THEN (IF u.exc = "InvalidToken" THEN Anonymous ELSE u)
                     ELSE Identity(u.user, v.token)

\* logout that forgets the refresh cookie.
logout_access_only(req) ==
  delete_cookie(Response(HTTP_OK, Put(EmptyDict, "detail", Str("Logged out"))),
                "access_token")

\* logout
logout(req) ==
  delete_cookie(delete_cookie(Response(HTTP_OK, Put(EmptyDict, "detail", Str("Logged out"))),
                              "access_token"), "refresh_token")

\* ---------------------------------------------------------------- inputs
\* What a client can put in a cookie, a body field or a bearer header: nothing,
\* the empty string, junk, or any token ever signed (expired ones included).
Presented == {None, Str(""), Garbage} \cup issued
Credentials ==
  {EmptyDict} \cup
  {Put(Put(EmptyDict, "username", [user |-> u]), "password", [pw |-> p]) : u \in Users, p \in Users}

\* ---------------------------------------------------------------- actions
Init ==
  /\ now = 0
  /\ users = [u \in Users |-> "active"]
  /\ issued = {}
  /\ DEBUG \in BOOLEAN
  /\ ROTATE \in BOOLEAN
  /\ op = "idle"
  /\ request = NoRequest
  /\ delegated = NoRequest
  /\ upstream = NoResponse
  /\ response = NoResponse
  /\ result = NoResult

\* A token view answers req with h; the tokens the issuer minted are signed.
Answer(name, req, h) ==
  /\ op = "idle"
  /\ Cardinality(issued \cup Minted(h.upstream)) <= MaxTokens
  /\ op' = name
  /\ request' = req
  /\ delegated' = h.delegated
  /\ upstream' = h.upstream
  /\ response' = h.response
  /\ issued' = issued \cup Minted(h.upstream)
  /\ result' = NoResult
  /\ UNCHANGED <<now, users, DEBUG, ROTATE>>

Issue ==
  \E c \in Credentials :
    LET req == Request(EmptyDict, c, None)
    IN Answer("issue", req, CookieTokenObtainPairView_post(req))

Refresh ==
  \E c \in Presented, b \in Presented :
    LET req == Request(Opt("refresh_token", c), Opt("refresh", b), None)
    IN Answer("refresh", req, CookieTokenRefreshView_post(req))

Verify ==
  \E c \in Presented, b \in Presented :
    LET req == Request(Opt("access_token", c), Opt("token", b), None)
    IN Answer("verify", req, CookieTokenVerifyView_post(req))

Authenticate ==
  \E c \in Presented, h \in Presented \ {Str("")} :
    LET req == Request(Opt("access_token", c), EmptyDict, h)
    IN /\ op = "idle"
       /\ op' = "authenticate"
       /\ request' = req
       /\ delegated' = NoRequest
       /\ upstream' = NoResponse
       /\ response' = NoResponse
       /\ result' = authenticate(req)
       /\ UNCHANGED <<now, users, issued, DEBUG, ROTATE>>

\* The cookies a logout request can carry.
LogoutRequests ==
  {Request(Merge(Opt("access_token", a), Opt("refresh_token", r)), EmptyDict, None) :
     a \in {None} \cup {t \in issued : t.typ = "access"},
     r \in {None} \cup {t \in issued : t.typ = "refresh"}}

\* logout that also revokes the tokens the request's cookies hold.
Logout_revoking ==
  \E req \in LogoutRequests :
    /\ op = "idle"
    /\ op' = "logout"
    /\ request' = req
    /\ delegated' = NoRequest
    /\ upstream' = NoResponse
    /\ response' = logout(req)
    /\ result' = NoResult
    /\ issued' = issued \ {req.COOKIES[k] : k \in DOMAIN req.COOKIES}
    /\ UNCHANGED <<now, users, DEBUG, ROTATE>>

Logout ==
  \E req \in LogoutRequests :
    /\ op = "idle"
    /\ op' = "logout"
    /\ request' = req
    /\ delegated' = NoRequest
    /\ upstream' = NoResponse
    /\ response' = logout(req)
    /\ result' = NoResult
    /\ UNCHANGED <<now, users, issued, DEBUG, ROTATE>>

\* The response leaves the server: nothing of the request is kept.
Complete ==
  /\ op # "idle"
  /\ op' = "idle"
  /\ request' = NoRequest
  /\ delegated' = NoRequest
  /\ upstream' = NoResponse
  /\ response' = NoResponse
  /\ result' = NoResult
  /\ UNCHANGED <<now, users, issued, DEBUG, ROTATE>>

\* Time passes.
Tick ==
  /\ op = "idle"
  /\ now < MaxTime
  /\ now' = now + 1
  /\ UNCHANGED <<users, issued, DEBUG, ROTATE, op, request, delegated, upstream, response, result>>

\* An administrator deactivates or deletes a user.
Retire ==
  \E u \in Users, s \in {"inactive", "absent"} :
    /\ op = "idle"
    /\ users[u] = "active"
    /\ users' = [users EXCEPT ![u] = s]
    /\ UNCHANGED <<now, issued, DEBUG, ROTATE, op, request, delegated, upstream, response, result>>

Next == Issue \/ Refresh \/ Verify \/ Authenticate \/ Logout \/ Complete \/ Tick \/ Retire

Spec == Init /\ [][Next]_vars

\* ---------------------------------------------------------------- claims
AccessCookie == Get(request.COOKIES, "access_token")
RefreshCookie == Get(request.COOKIES, "refresh_token")
ValidAccess(t) == Verifies(t) /\ t.typ = "access"
ValidRefresh(t) == Verifies(t) /\ t.typ = "refresh"
TokenCookie(value, max_age) ==
  [value |-> value, httponly |-> TRUE, secure |-> ~DEBUG,
   samesite |-> "Strict", max_age |-> max_age]

\* C1: the body of a response of the issuance or the refresh endpoint holds no
\* raw token value in any field, whatever the issuer answered.
C1_BodyHoldsNoToken ==
  op \in {"issue", "refresh"} =>
    \A k \in DOMAIN response.data : ~IsToken(response.data[k])

\* C2: an issuance the issuer answers with OK sets the access_token and the
\* refresh_token cookie to the issuer's access and refresh values, httpOnly,
\* SameSite=Strict, secure unless DEBUG, max-age 3600 and 86400; the body
\* carries detail "Login successful" and neither access nor refresh.
C2_IssueSetsBothCookies ==
  (op = "issue" /\ upstream.status_code = 200) =>
    /\ response.status_code = 200
    /\ DOMAIN response.cookies = {"access_token", "refresh_token"}
    /\ response.cookies["access_token"] = TokenCookie(upstream.data["access"], 3600)
    /\ response.cookies["refresh_token"] = TokenCookie(upstream.data["refresh"], 86400)
    /\ IsToken(upstream.data["access"]) /\ IsToken(upstream.data["refresh"])
    /\ Get(response.data, "detail") = Str("Login successful")
    /\ DOMAIN response.data \cap {"access", "refresh"} = {}

C2_Witness ==
  /\ op = "issue"
  /\ upstream.status_code = 200
  /\ "refresh_token" \in DOMAIN response.cookies
  /\ response.cookies["refresh_token"].value.sub = 2

\* C3: when the issuer answers an issuance or a refresh with a status other
\* than OK, the response returned is the issuer's, unchanged and without any
\* cookie; a token view writes cookies only on an OK answer, and verify never
\* writes one.
C3_FailurePassesThrough ==
  /\ (op \in {"issue", "refresh"} /\ upstream.status_code # 200) =>
       /\ response = upstream
       /\ response.cookies = EmptyDict
  /\ (op \in {"issue", "refresh", "verify"} /\ response.cookies # EmptyDict) =>
       upstream.status_code = 200
  /\ op = "verify" => response.cookies = EmptyDict

C3_Witness ==
  /\ op = "refresh"
  /\ upstream.status_code = 401
  /\ IsToken(RefreshCookie)
  /\ "detail" \in DOMAIN response.data

\* C4: a refresh request with an empty body and a valid refresh token in the
\* refresh_token cookie is answered OK, sets the access_token cookie to the new
\* access token of the issuer, and its body has detail "Token refreshed" and no
\* access field.
C4_RefreshFromCookieAlone ==
  (op = "refresh" /\ request.data = EmptyDict /\ ValidRefresh(RefreshCookie)) =>
    /\ response.status_code = 200
    /\ "access_token" \in DOMAIN response.cookies
    /\ IsToken(upstream.data["access"])
    /\ upstream.data["access"].sub = RefreshCookie.sub
    /\ response.cookies["access_token"] = TokenCookie(upstream.data["access"], 3600)
    /\ Get(response.data, "detail") = Str("Token refreshed")
    /\ "access" \notin DOMAIN response.data

C4_Witness ==
  /\ op = "refresh"
  /\ request.data = EmptyDict
  /\ ValidRefresh(RefreshCookie)
  /\ "access_token" \in DOMAIN response.cookies

\* C5: a non-empty access_token cookie whose token the issuer rejects resolves
\* to anonymous, without an error, whatever the Authorization header holds.
C5_InvalidCookieIsAnonymous ==
  (op = "authenticate" /\ Truthy(AccessCookie) /\ ~ValidAccess(AccessCookie)) =>
    result = Anonymous

C5_Witness ==
  /\ op = "authenticate"
  /\ Truthy(AccessCookie)
  /\ ~ValidAccess(AccessCookie)
  /\ ValidAccess(request.header)
  /\ users[request.header.sub] = "active"
  /\ result = Anonymous

\* C6 as stated: a valid access_token cookie whose subject is an existing user
\* resolves to that user and the validated token.
C6_ExistingUserResolves ==
  (op = "authenticate" /\ ValidAccess(AccessCookie)
     /\ users[AccessCookie.sub] # "absent") =>
    result = Identity(AccessCookie.sub, AccessCookie)

\* C6 amended: a valid access_token cookie whose subject is an existing, active
\* user resolves to that user and the validated token; with the cookie absent
\* or empty the result is the header-based resolution, as it is.
C6_ActiveUserResolves ==
  op = "authenticate" =>
    /\ (ValidAccess(AccessCookie) /\ users[AccessCookie.sub] = "active") =>
         result = Identity(AccessCookie.sub, AccessCookie)
    /\ ~Truthy(AccessCookie) => result = JWTAuthentication_authenticate(request)

C6_Witness ==
  /\ op = "authenticate"
  /\ ValidAccess(AccessCookie)
  /\ ValidAccess(request.header)
  /\ request.header.sub # AccessCookie.sub
  /\ result.outcome = "identity"
  /\ result.user = AccessCookie.sub

\* C7: every logout answers with a success status and the body
\* {"detail": "Logged out"} and deletes both token cookies, whatever the
\* request carries.
C7_LogoutClearsBoth ==
  op = "logout" =>
    /\ response.status_code = 200
    /\ response.data = Put(EmptyDict, "detail", Str("Logged out"))
    /\ DOMAIN response.cookies = {"access_token", "refresh_token"}
    /\ \A k \in DOMAIN response.cookies :
         response.cookies[k].value = Str("") /\ response.cookies[k].max_age = 0

C7_Witness ==
  /\ op = "logout"
  /\ request.COOKIES = EmptyDict
  /\ "refresh_token" \in DOMAIN response.cookies

\* A token as a later request would find it: accepted by authenticate, by
\* verify, by refresh, when presented in the cookie alone.
AcceptedByAuthenticate(t) ==
  authenticate(Request(Opt("access_token", t), EmptyDict, None)).outcome = "identity"
AcceptedByVerify(t) ==
  CookieTokenVerifyView_post(Request(Opt("access_token", t), EmptyDict, None))
    .response.status_code = 200
AcceptedByRefresh(t) ==
  CookieTokenRefreshView_post(Request(Opt("refresh_token", t), EmptyDict, None))
    .response.status_code = 200

\* C8: a logout changes no server-side state, and every token that was
\* accepted before it (by authenticate, verify or refresh) is accepted after it.
C8_LogoutRevokesNothing ==
  [][op' = "logout" =>
       /\ server' = server
       /\ \A t \in issued :
            /\ AcceptedByAuthenticate(t) => AcceptedByAuthenticate(t)'
            /\ AcceptedByVerify(t) => AcceptedByVerify(t)'
            /\ AcceptedByRefresh(t) => AcceptedByRefresh(t)']_vars

C8_Witness ==
  /\ op = "logout"
  /\ IsToken(AccessCookie) /\ AcceptedByAuthenticate(AccessCookie)
  /\ IsToken(RefreshCookie) /\ AcceptedByRefresh(RefreshCookie)

\* C9 as stated: whenever the refresh_token (access_token) cookie is present,
\* the token the issuer receives in refresh (verify) is the cookie's value.
C9_PresentCookieWins ==
  /\ (op = "refresh" /\ "refresh_token" \in DOMAIN request.COOKIES) =>
       Get(delegated.data, "refresh") = request.COOKIES["refresh_token"]
  /\ (op = "verify" /\ "access_token" \in DOMAIN request.COOKIES) =>
       Get(delegated.data, "token") = request.COOKIES["access_token"]

\* C9 amended: whenever the refresh_token (access_token) cookie is present and
\* not empty, the token the issuer receives in refresh (verify) is the cookie's
\* value, over any value of the body; with the cookie absent or empty the body
\* is passed on untouched; the verify response is the issuer's, as it is.
C9_NonEmptyCookieWins ==
  /\ op = "refresh" =>
       IF Truthy(RefreshCookie)
       THEN delegated.data = Put(request.data, "refresh", RefreshCookie)
       ELSE delegated.data = request.data
  /\ op = "verify" =>
       /\ IF Truthy(AccessCookie)
          THEN delegated.data = Put(request.data, "token", AccessCookie)
          ELSE delegated.data = request.data
       /\ response = upstream
       /\ upstream = TokenVerifyView_post(delegated)

C9_Witness ==
  /\ op = "refresh"
  /\ IsToken(RefreshCookie)
  /\ "refresh" \in DOMAIN request.data
  /\ IsToken(request.data["refresh"])
  /\ request.data["refresh"] # RefreshCookie
  /\ delegated.data["refresh"] = RefreshCookie

\* C10: with an access_token cookie present, authenticate answers anonymous
\* only for an invalid token (or, the cookie being empty, for a request without
\* a bearer header); a valid token whose user is gone or inactive is an
\* AuthenticationFailed error for the caller.
C10_OnlyInvalidTokenSwallowed ==
  (op = "authenticate" /\ "access_token" \in DOMAIN request.COOKIES) =>
    /\ (ValidAccess(AccessCookie) /\ users[AccessCookie.sub] # "active") =>
         result = Raise("AuthenticationFailed")
    /\ result = Anonymous =>
         \/ Truthy(AccessCookie) /\ ~ValidAccess(AccessCookie)
         \/ ~Truthy(AccessCookie) /\ request.header = None

C10_Witness ==
  /\ op = "authenticate"
  /\ ValidAccess(AccessCookie)
  /\ users[AccessCookie.sub] = "absent"
  /\ result = Raise("AuthenticationFailed")

====
